---- MODULE Spec2Model ----
(***************************************************************************)
(* Model of the lyktparad web-UI generator (tools/generate_html.py), the   *)
(* C-string escaper it shares with src/plugins/convert_file_to_c_string.py *)
(* and the unescaper of the extraction tools.                              *)
(*                                                                         *)
(* Text is a sequence of items.  An item is a record [k, n]:               *)
(*   k = "chr"  one character; n names it ("BSL" backslash, "QUOTE",       *)
(*              "LF", "CR", "TAB", "NUL", or the letter itself)            *)
(*   k = "tok"  one placeholder token of the template, e.g. {{PLUGIN_CSS}} *)
(*   k = "tag"  one closing tag used as a structural anchor                *)
(*   other k    one fixed piece of generated text (a fragment, a wrapper). *)
(* Tokens and tags are matched as whole items: no token or tag is a        *)
(* proper part of another, so a match never straddles two items.           *)
(***************************************************************************)
EXTENDS Integers, Sequences, FiniteSets, TLC

VARIABLES
    content,        \* escape tools: the text being converted
    original,       \* escape tools: the text the conversion started from
    stage,          \* escape tools: "raw", "escaped", "unescaped", "failed"
    mode,           \* generator: "embedded" or "external" (argv mode)
    template_file,  \* generator: the template file on disk
    plugins_dir,    \* generator: the plugins directory on disk
    plugins,        \* generator: the PluginSet of the last run
    dropdown_html,  \* generator: the dropdown markup of the last run
    html_content,   \* generator: the composed document of the last run
    output_file,    \* generator: the output file on disk
    exit_code,      \* generator: exit status of the last run
    diagnostic,     \* generator: what the last run printed last
    runs,           \* generator: number of runs done in this process
    first_run,      \* generator: what the first run produced
    read_result,    \* read_file_safe: what the last call returned
    selector_value, \* page: the value of the select element plugin-selector
    active,         \* page: the plugins whose section carries the class active
    selectedPlugin, \* page: localStorage item selectedPlugin
    pending,        \* page: the requests in flight
    page_state      \* page: "none", "loading", "ready"

vars == <<content, original, stage, mode, template_file, plugins_dir, plugins,
          dropdown_html, html_content, output_file, exit_code, diagnostic, runs,
          first_run, read_result, selector_value, active, selectedPlugin, pending,
          page_state>>

reader_vars == <<read_result>>

page_vars == <<selector_value, active, selectedPlugin, pending, page_state>>

escape_vars == <<content, original, stage>>

generator_vars == <<mode, template_file, plugins_dir, plugins, dropdown_html,
                    html_content, output_file, exit_code, diagnostic, runs,
                    first_run>>

ReaderIdle == read_result = [none |-> TRUE, warned |-> FALSE, text |-> <<>>]

PageIdle ==
    /\ selector_value = ""
    /\ active = {}
    /\ selectedPlugin = "null"
    /\ pending = <<>>
    /\ page_state = "none"

(***************************************************************************)
(* Bounds                                                                  *)
(***************************************************************************)
MaxLen == 3          \* longest text given to the escape tools
MaxTemplateLen == 2  \* longest template, in items
MaxPlugins == 2      \* most entries of the plugins directory
MaxRuns == 2         \* most runs of the generator in one process

(***************************************************************************)
(* Items                                                                   *)
(***************************************************************************)
Ch(c) == [k |-> "chr", n |-> c]

BSL == Ch("BSL")
QUOTE == Ch("QUOTE")
LF == Ch("LF")
CR == Ch("CR")
TAB == Ch("TAB")
NUL == Ch("NUL")

\* All sequences over S of length at most n.
SeqUpTo(S, n) == UNION {[1..m -> S] : m \in 0..n}

Contains(s, x) == \E i \in 1..Len(s) : s[i] = x

\* Number of positions of s that hold x.
Count(s, x) == Cardinality({i \in 1..Len(s) : s[i] = x})

(***************************************************************************)
(* str.replace(old, new): every non-overlapping occurrence, left to right. *)
(***************************************************************************)
\* The places of s where old starts.
starts_of(s, old) ==
    {i \in 1..(Len(s) - Len(old) + 1) : SubSeq(s, i, i + Len(old) - 1) = old}

\* The text up to the leftmost occurrence is kept, the occurrence replaced,
\* and the rest treated the same way.
RECURSIVE str_replace(_, _, _)
str_replace(s, old, new) ==
    IF starts_of(s, old) = {} THEN s
    ELSE LET i == CHOOSE i \in starts_of(s, old) : \A j \in starts_of(s, old) : i <= j
         IN  SubSeq(s, 1, i - 1) \o new
             \o str_replace(SubSeq(s, i + Len(old), Len(s)), old, new)

(***************************************************************************)
(* escape_c_string: five replacements in sequence, then the NUL check.     *)
(* The result is [raised, value]: raised models the ValueError.            *)
(***************************************************************************)
escape_order_newline_first(text) ==
    LET c1 == str_replace(text, <<LF>>, <<BSL, Ch("n")>>)
        c2 == str_replace(c1, <<CR>>, <<BSL, Ch("r")>>)
        c3 == str_replace(c2, <<TAB>>, <<BSL, Ch("t")>>)
        c4 == str_replace(c3, <<QUOTE>>, <<BSL, QUOTE>>)
        c5 == str_replace(c4, <<BSL>>, <<BSL, BSL>>)
    IN  [raised |-> Contains(c5, NUL), value |-> c5]

\* The five replacements without the check for NUL.
escape_without_nul_check(text) ==
    LET c1 == str_replace(text, <<BSL>>, <<BSL, BSL>>)
        c2 == str_replace(c1, <<QUOTE>>, <<BSL, QUOTE>>)
        c3 == str_replace(c2, <<LF>>, <<BSL, Ch("n")>>)
        c4 == str_replace(c3, <<CR>>, <<BSL, Ch("r")>>)
        c5 == str_replace(c4, <<TAB>>, <<BSL, Ch("t")>>)
    IN  [raised |-> FALSE, value |-> c5]

escape_c_string(text) ==
    LET c1 == str_replace(text, <<BSL>>, <<BSL, BSL>>)
        c2 == str_replace(c1, <<QUOTE>>, <<BSL, QUOTE>>)
        c3 == str_replace(c2, <<LF>>, <<BSL, Ch("n")>>)
        c4 == str_replace(c3, <<CR>>, <<BSL, Ch("r")>>)
        c5 == str_replace(c4, <<TAB>>, <<BSL, Ch("t")>>)
    IN  [raised |-> Contains(c5, NUL), value |-> c5]

\* The copy in src/plugins/convert_file_to_c_string.py.
convert_escape_c_string(text) ==
    LET c1 == str_replace(text, <<BSL>>, <<BSL, BSL>>)
        c2 == str_replace(c1, <<QUOTE>>, <<BSL, QUOTE>>)
        c3 == str_replace(c2, <<LF>>, <<BSL, Ch("n")>>)
        c4 == str_replace(c3, <<CR>>, <<BSL, Ch("r")>>)
        c5 == str_replace(c4, <<TAB>>, <<BSL, Ch("t")>>)
    IN  [raised |-> Contains(c5, NUL), value |-> c5]

(***************************************************************************)
(* unescape_c_string of the extraction tools: five replacements, the       *)
(* doubled backslash first.                                                *)
(***************************************************************************)
unescape_c_string(text) ==
    LET c1 == str_replace(text, <<BSL, BSL>>, <<BSL>>)
        c2 == str_replace(c1, <<BSL, QUOTE>>, <<QUOTE>>)
        c3 == str_replace(c2, <<BSL, Ch("n")>>, <<LF>>)
        c4 == str_replace(c3, <<BSL, Ch("r")>>, <<CR>>)
        c5 == str_replace(c4, <<BSL, Ch("t")>>, <<TAB>>)
    IN  c5

\* The copy in tools/extract_html_from_c.py.
extract_unescape_c_string(text) ==
    LET c1 == str_replace(text, <<BSL, BSL>>, <<BSL>>)
        c2 == str_replace(c1, <<BSL, QUOTE>>, <<QUOTE>>)
        c3 == str_replace(c2, <<BSL, Ch("n")>>, <<LF>>)
        c4 == str_replace(c3, <<BSL, Ch("r")>>, <<CR>>)
        c5 == str_replace(c4, <<BSL, Ch("t")>>, <<TAB>>)
    IN  c5

(***************************************************************************)
(* Files and directories.  A file is [exists, readable, data]; a directory *)
(* entry is [is_dir, plugin_c, plugin_h, name_html, index_html, css, js].  *)
(***************************************************************************)
NoFile == [exists |-> FALSE, readable |-> FALSE, data |-> <<>>]
File(d) == [exists |-> TRUE, readable |-> TRUE, data |-> d]

\* A byte that starts no valid UTF-8 sequence, and the character U+FFFD that
\* decoding with errors='replace' puts in its place.
INVALID_BYTE == [k |-> "byte", n |-> "0xFF"]

REPLACEMENT == Ch("U+FFFD")

\* content_bytes.decode('utf-8'), and on UnicodeDecodeError
\* content_bytes.decode('utf-8', errors='replace').
decode_utf8(content_bytes) ==
    IF ~Contains(content_bytes, INVALID_BYTE) THEN content_bytes
    ELSE [i \in 1..Len(content_bytes) |->
             IF content_bytes[i] = INVALID_BYTE THEN REPLACEMENT ELSE content_bytes[i]]

\* A missing file read as the empty text.
read_file_missing_as_empty(f) == [none |-> FALSE, warned |-> FALSE, text |-> f.data]

\* A file that cannot be read gives None without the warning.
read_file_without_warning(f) ==
    IF ~f.exists THEN [none |-> TRUE, warned |-> FALSE, text |-> <<>>]
    ELSE IF ~f.readable THEN [none |-> TRUE, warned |-> FALSE, text |-> <<>>]
    ELSE [none |-> FALSE, warned |-> FALSE, text |-> decode_utf8(f.data)]

\* read_file_safe: None for a path that is None or does not exist, None
\* (with a warning) when open or read raises, else the bytes decoded as
\* UTF-8 with invalid sequences replaced.
read_file_safe(f) ==
    IF ~f.exists THEN [none |-> TRUE, warned |-> FALSE, text |-> <<>>]
    ELSE IF ~f.readable THEN [none |-> TRUE, warned |-> TRUE, text |-> <<>>]
    ELSE [none |-> FALSE, warned |-> FALSE, text |-> decode_utf8(f.data)]

\* Python truthiness of "content = read_file_safe(path)": neither None nor "".
Truthy(r) == ~r.none /\ r.text # <<>>

(***************************************************************************)
(* Plugin names, in the byte-wise order Python compares them.              *)
(***************************************************************************)
NameOrder == <<"effects", "sequence", "zigzag">>

Rank(name) == CHOOSE i \in 1..Len(NameOrder) : NameOrder[i] = name

\* The list left as appended, in listing order.
sort_skipped(list) == list

\* The list sorted descending by name.
sort_insert_descending(sorted, x) ==
    IF sorted = <<>> THEN <<x>>
    ELSE <<x>> \o sorted

\* list.sort(key=name): insertion of x behind every element not greater.
RECURSIVE sort_insert(_, _)
sort_insert(sorted, x) ==
    IF sorted = <<>> THEN <<x>>
    ELSE IF Rank(Head(sorted).name) <= Rank(x.name)
         THEN <<Head(sorted)>> \o sort_insert(Tail(sorted), x)
         ELSE <<x>> \o sorted

RECURSIVE sort_by_name(_)
sort_by_name(list) ==
    IF list = <<>> THEN <<>>
    ELSE sort_insert(sort_by_name(SubSeq(list, 1, Len(list) - 1)), list[Len(list)])

(***************************************************************************)
(* collect_plugin_files: listing is os.listdir's result, in whatever order *)
(* the file system returns it.                                             *)
(***************************************************************************)
\* index.html preferred to <name>.html.
plugin_of_index_first(name, e) ==
    [name |-> name,
     html_file |-> IF e.index_html.exists THEN "index.html"
                   ELSE IF e.name_html.exists THEN "name.html" ELSE "None",
     css_file |-> IF e.css.exists THEN "css" ELSE "None",
     js_file |-> IF e.js.exists THEN "js" ELSE "None"]

plugin_of(name, e) ==
    [name |-> name,
     html_file |-> IF e.name_html.exists THEN "name.html"
                   ELSE IF e.index_html.exists THEN "index.html" ELSE "None",
     css_file |-> IF e.css.exists THEN "css" ELSE "None",
     js_file |-> IF e.js.exists THEN "js" ELSE "None"]

\* The scan with the check of <name>_plugin.h left out.
RECURSIVE scan_entries_c_only(_, _)
scan_entries_c_only(dir, listing) ==
    IF listing = <<>> THEN <<>>
    ELSE LET item == Head(listing)
             e == dir.entries[item]
             rest == scan_entries_c_only(dir, Tail(listing))
         IN  IF ~e.is_dir THEN rest
             ELSE IF ~e.plugin_c THEN rest
             ELSE <<plugin_of(item, e)>> \o rest

RECURSIVE scan_entries(_, _)
scan_entries(dir, listing) ==
    IF listing = <<>> THEN <<>>
    ELSE LET item == Head(listing)
             e == dir.entries[item]
             rest == scan_entries(dir, Tail(listing))
         IN  IF ~e.is_dir THEN rest
             ELSE IF ~e.plugin_c \/ ~e.plugin_h THEN rest
             ELSE <<plugin_of(item, e)>> \o rest

collect_plugin_files(dir, listing) ==
    IF ~dir.exists THEN <<>>
    ELSE sort_by_name(scan_entries(dir, listing))

\* The file a plugin's path names.
plugin_file(dir, plugin, path) ==
    LET e == dir.entries[plugin.name]
    IN  IF path = "name.html" THEN e.name_html
        ELSE IF path = "index.html" THEN e.index_html
        ELSE IF path = "css" THEN e.css
        ELSE IF path = "js" THEN e.js
        ELSE NoFile

(***************************************************************************)
(* Generated text                                                          *)
(***************************************************************************)
Tok(t) == [k |-> "tok", n |-> t]
Tag(t) == [k |-> "tag", n |-> t]
Gen(f) == [k |-> "gen", n |-> f]
Per(kind, name) == [k |-> kind, n |-> name]

RECURSIVE join(_, _)
join(list, sep) ==
    IF list = <<>> THEN <<>>
    ELSE IF Len(list) = 1 THEN list[1]
    ELSE list[1] \o sep \o join(Tail(list), sep)

\* Every option carries the selected attribute.
dropdown_options_all_selected(list) ==
    [i \in 1..Len(list) |-> <<Per("option_selected", list[i].name)>>]

\* The options of generate_dropdown_html: the first one appended (the list
\* of options is still empty) carries the selected attribute.
dropdown_options(list) ==
    [i \in 1..Len(list) |->
        IF i - 1 = 0 THEN <<Per("option_selected", list[i].name)>>
        ELSE <<Per("option", list[i].name)>>]

generate_dropdown_html(list) ==
    IF list = <<>> THEN <<>>
    ELSE <<Gen("select_open"), LF>> \o join(dropdown_options(list), <<LF>>)
         \o <<LF, Gen("select_close")>>

generate_layout_css == <<Gen("layout_css")>>

generate_basic_plugin_ui(name) == <<Per("basic_plugin_ui", name)>>

generate_basic_plugin_ui_css == <<Gen("basic_plugin_ui_css")>>

generate_basic_plugin_ui_js == <<Gen("basic_plugin_ui_js")>>

generate_selection_js(list) ==
    IF list = <<>> THEN <<>>
    ELSE <<Gen("selection_js_head")>>
         \o join([i \in 1..Len(list) |-> <<Per("js_name", list[i].name)>>],
                 <<Gen("comma")>>)
         \o <<Gen("selection_js_body")>>

generate_mesh_control_css == <<Gen("mesh_control_css")>>

\* The script holds the regular expression of hexToRgb, written with two
\* backslashes before each d.
generate_mesh_control_js ==
    <<Gen("mesh_control_js_head"), BSL, BSL, Ch("d"), Gen("mesh_control_js_tail")>>

PAGE_TITLE == <<Gen("page_title")>>

(***************************************************************************)
(* re.sub(r'(<tag>)', repl, s, count=1).  The replacement is a template:   *)
(* a backslash starts an escape.  \n \r \t and \\ give one character, \1   *)
(* gives the matched tag, a backslash before any other letter or at the    *)
(* end of the template is an error (re.error), a backslash before anything *)
(* else stays.  The template is parsed before the search, so the error is  *)
(* raised whether or not the tag occurs.  Result: [raised, value].         *)
(***************************************************************************)
Letters == {Ch("n"), Ch("r"), Ch("t"), Ch("d"), Ch("x"), Ch("h"), Ch("c"), Ch("j")}

FirstIndex(s, x) == CHOOSE i \in 1..Len(s) : s[i] = x /\ \A j \in 1..(i - 1) : s[j] # x

\* The text an escape stands for: \n \r \t and \\ give one character, \1
\* gives the matched tag, a backslash before anything that is no letter stays.
escape_text(c, group1) ==
    IF c = Ch("n") THEN <<LF>>
    ELSE IF c = Ch("r") THEN <<CR>>
    ELSE IF c = Ch("t") THEN <<TAB>>
    ELSE IF c = BSL THEN <<BSL>>
    ELSE IF c = Ch("1") THEN group1
    ELSE <<BSL, c>>

\* The escape at place i of repl is an error: the backslash ends the
\* template, or stands before a letter that names no escape, or before a
\* group number of two digits.
bad_escape(repl, i) ==
    \/ i = Len(repl)
    \/ repl[i + 1] \in Letters \ {Ch("n"), Ch("r"), Ch("t")}
    \/ repl[i + 1] = Ch("1") /\ Len(repl) >= i + 2 /\ repl[i + 2] = Ch("1")

\* The expanded start of a template before the expansion of its rest.
expanded(start, rest) == [raised |-> rest.raised, value |-> start \o rest.value]

\* The template up to its first backslash is literal text; the escape that
\* starts there is expanded and the rest treated the same way.
RECURSIVE expand_template(_, _)
expand_from(repl, i, group1) ==
    IF bad_escape(repl, i) THEN [raised |-> TRUE, value |-> SubSeq(repl, 1, i - 1)]
    ELSE expanded(SubSeq(repl, 1, i - 1) \o escape_text(repl[i + 1], group1),
                  expand_template(SubSeq(repl, i + 2, Len(repl)), group1))

expand_template(repl, group1) ==
    IF ~Contains(repl, BSL) THEN [raised |-> FALSE, value |-> repl]
    ELSE expand_from(repl, FirstIndex(repl, BSL), group1)

re_sub(tag, repl, s) ==
    LET r == expand_template(repl, <<tag>>)
    IN  IF r.raised THEN [raised |-> TRUE, value |-> s]
        ELSE IF ~Contains(s, tag) THEN [raised |-> FALSE, value |-> s]
        ELSE LET i == FirstIndex(s, tag)
             IN  [raised |-> FALSE,
                  value |-> SubSeq(s, 1, i - 1) \o r.value \o SubSeq(s, i + 1, Len(s))]

\* A step of the composition on [raised, value]: nothing runs after an
\* exception.
sub(st, tag, repl) == IF st.raised THEN st ELSE re_sub(tag, repl, st.value)

replace(st, token, text) ==
    IF st.raised THEN st
    ELSE [raised |-> FALSE, value |-> str_replace(st.value, <<token>>, text)]

\* r'\n\1' and '\\1' at the end of a replacement.
NL_GROUP1 == <<BSL, Ch("n"), BSL, Ch("1")>>
GROUP1 == <<BSL, Ch("1")>>

STYLE == Tag("</style>")
HEAD == Tag("</head>")
BODY == Tag("</body>")
SCRIPT == Tag("</script>")

(***************************************************************************)
(* The fragment lists both targets build from the PluginSet.               *)
(***************************************************************************)
css_of(dir, p) == read_file_safe(plugin_file(dir, p, p.css_file))
js_of(dir, p) == read_file_safe(plugin_file(dir, p, p.js_file))
html_of(dir, p) == read_file_safe(plugin_file(dir, p, p.html_file))

\* Plugins whose html_file is None: they get the basic UI.
plugins_without_html(list) == SelectSeq(list, LAMBDA p : p.html_file = "None")

\* Plugins whose HTML file was found and read as non-empty text.
plugins_with_html(dir, list) ==
    SelectSeq(list, LAMBDA p : p.html_file # "None" /\ Truthy(html_of(dir, p)))

\* Embedded target: the CSS texts, each under a comment naming its plugin,
\* then (after the loop) the shared basic-UI CSS.
embedded_plugin_css_content(dir, list) ==
    LET own == SelectSeq(list, LAMBDA p : p.css_file # "None" /\ Truthy(css_of(dir, p)))
        per == [i \in 1..Len(own) |->
                   <<LF, Per("plugin_comment", own[i].name), LF>> \o css_of(dir, own[i]).text]
    IN  IF plugins_without_html(list) # <<>>
        THEN Append(per, <<LF, Gen("basic_ui_comment"), LF>> \o generate_basic_plugin_ui_css)
        ELSE per

embedded_plugin_js_content(dir, list) ==
    LET own == SelectSeq(list, LAMBDA p : p.js_file # "None" /\ Truthy(js_of(dir, p)))
        per == [i \in 1..Len(own) |->
                   <<LF, Per("plugin_comment", own[i].name), LF>> \o js_of(dir, own[i]).text]
    IN  IF plugins_without_html(list) # <<>>
        THEN Append(per, <<LF, Gen("basic_ui_comment"), LF>> \o generate_basic_plugin_ui_js)
        ELSE per

\* The sections: those of the plugins with HTML, in the order of the loop,
\* then those of the plugins without, appended after the loop.
plugin_html_sections(dir, list, indent) ==
    LET custom == plugins_with_html(dir, list)
        basic == plugins_without_html(list)
    IN  [i \in 1..Len(custom) |->
            indent \o <<Per("section_open", custom[i].name)>>
            \o html_of(dir, custom[i]).text \o <<Gen("section_close")>>]
        \o
        [i \in 1..Len(basic) |->
            indent \o <<Per("section_open", basic[i].name)>>
            \o generate_basic_plugin_ui(basic[i].name) \o <<Gen("section_close")>>]

INDENT == <<Gen("indent")>>

\* External target: one stylesheet link per plugin with a CSS file.
external_plugin_css_links(list) ==
    LET own == SelectSeq(list, LAMBDA p : p.css_file # "None")
    IN  [i \in 1..Len(own) |-> INDENT \o <<Per("css_link", own[i].name)>>]

\* External target: one script tag per plugin with a JS file, then the
\* inline basic-UI script when a plugin has no HTML.
external_plugin_js_scripts(list) ==
    LET own == SelectSeq(list, LAMBDA p : p.js_file # "None")
        per == [i \in 1..Len(own) |-> INDENT \o <<Per("js_script", own[i].name)>>]
    IN  IF plugins_without_html(list) # <<>> /\ generate_basic_plugin_ui_js # <<>>
        THEN Append(per, INDENT \o <<Gen("script_open")>> \o generate_basic_plugin_ui_js
                         \o <<LF>> \o INDENT \o <<SCRIPT>>)
        ELSE per

(***************************************************************************)
(* Composition.  Each step takes the document so far as [raised, value]    *)
(* and gives the document after it; "raised" is an exception of re.sub.    *)
(***************************************************************************)
joined(list) == IF list # <<>> THEN join(list, <<LF>>) ELSE <<>>

\* '{{PAGE_TITLE}}' and '{{PLUGIN_DROPDOWN}}': replaced when present.
put_page_title(st) ==
    IF Contains(st.value, Tok("PAGE_TITLE"))
    THEN replace(st, Tok("PAGE_TITLE"), PAGE_TITLE) ELSE st

\* The token replaced only when there is a dropdown to put in its place.
put_dropdown_unless_empty(st, dropdown) ==
    IF dropdown # <<>> /\ Contains(st.value, Tok("PLUGIN_DROPDOWN"))
    THEN replace(st, Tok("PLUGIN_DROPDOWN"), dropdown)
    ELSE st

put_dropdown(st, dropdown) ==
    IF Contains(st.value, Tok("PLUGIN_DROPDOWN"))
    THEN replace(st, Tok("PLUGIN_DROPDOWN"), dropdown) ELSE st

\* Embedded target -------------------------------------------------------
embedded_layout_css(st, layout_css) ==
    IF Contains(st.value, Tok("PLUGIN_LAYOUT_CSS"))
    THEN replace(st, Tok("PLUGIN_LAYOUT_CSS"), layout_css)
    ELSE IF layout_css # <<>> THEN sub(st, STYLE, layout_css \o NL_GROUP1)
    ELSE st

embedded_mesh_control_css(st, mesh_control_css) ==
    IF mesh_control_css # <<>> THEN sub(st, STYLE, mesh_control_css \o NL_GROUP1) ELSE st

embedded_plugin_css(st, css_list) ==
    IF Contains(st.value, Tok("PLUGIN_CSS"))
    THEN replace(st, Tok("PLUGIN_CSS"), joined(css_list))
    ELSE IF css_list # <<>> THEN sub(st, STYLE, join(css_list, <<LF>>) \o NL_GROUP1)
    ELSE st

embedded_plugin_html(st, html_list) ==
    IF Contains(st.value, Tok("PLUGIN_HTML"))
    THEN replace(st, Tok("PLUGIN_HTML"), joined(html_list))
    ELSE IF html_list # <<>> THEN sub(st, BODY, join(html_list, <<LF>>) \o NL_GROUP1)
    ELSE st

embedded_selection_js(st, selection_js) ==
    IF Contains(st.value, Tok("PLUGIN_SELECTION_JS"))
    THEN replace(st, Tok("PLUGIN_SELECTION_JS"), selection_js)
    ELSE IF selection_js # <<>> THEN sub(st, SCRIPT, selection_js \o NL_GROUP1)
    ELSE st

embedded_plugin_js(st, js_list) ==
    IF Contains(st.value, Tok("PLUGIN_JS"))
    THEN replace(st, Tok("PLUGIN_JS"), joined(js_list))
    ELSE IF js_list # <<>> THEN sub(st, SCRIPT, join(js_list, <<LF>>) \o NL_GROUP1)
    ELSE st

embedded_mesh_control_js(st, mesh_control_js) ==
    IF mesh_control_js # <<>> THEN sub(st, SCRIPT, mesh_control_js \o NL_GROUP1) ELSE st

\* generate_html_for_embedded from "Replace placeholders in template" to the
\* mesh-control script.
embedded_compose(template_content, dir, list) ==
    embedded_mesh_control_js(
     embedded_plugin_js(
      embedded_selection_js(
       embedded_plugin_html(
        embedded_plugin_css(
         embedded_mesh_control_css(
          embedded_layout_css(
           put_dropdown(
            put_page_title([raised |-> FALSE, value |-> template_content]),
            generate_dropdown_html(list)),
           generate_layout_css),
          generate_mesh_control_css),
         embedded_plugin_css_content(dir, list)),
        plugin_html_sections(dir, list, <<>>)),
       generate_selection_js(list)),
      embedded_plugin_js_content(dir, list)),
     generate_mesh_control_js)

\* External target -------------------------------------------------------
\* "    <style>...\n    </style>\n\\1" and "    <script>...\n    </script>\n\\1".
style_element(css) ==
    INDENT \o <<Gen("style_open")>> \o css \o <<LF>> \o INDENT \o <<STYLE, LF>> \o GROUP1

script_element(js) ==
    INDENT \o <<Gen("script_open")>> \o js \o <<LF>> \o INDENT \o <<SCRIPT, LF>> \o GROUP1

\* The basic-UI CSS goes into the head before any placeholder is looked at.
external_basic_ui_css(st, without, basic_ui_css) ==
    IF without # <<>> /\ basic_ui_css # <<>>
    THEN IF Contains(st.value, HEAD) THEN sub(st, HEAD, style_element(basic_ui_css))
         ELSE IF Contains(st.value, STYLE) THEN sub(st, STYLE, basic_ui_css \o NL_GROUP1)
         ELSE st
    ELSE st

external_layout_css(st, layout_css) ==
    IF Contains(st.value, Tok("PLUGIN_LAYOUT_CSS"))
    THEN replace(st, Tok("PLUGIN_LAYOUT_CSS"), layout_css)
    ELSE IF layout_css # <<>>
    THEN IF Contains(st.value, HEAD) THEN sub(st, HEAD, style_element(layout_css))
         ELSE IF Contains(st.value, STYLE) THEN sub(st, STYLE, layout_css \o NL_GROUP1)
         ELSE st
    ELSE st

external_plugin_css(st, css_links) ==
    IF Contains(st.value, Tok("PLUGIN_CSS"))
    THEN replace(st, Tok("PLUGIN_CSS"), joined(css_links))
    ELSE IF css_links # <<>> THEN sub(st, HEAD, join(css_links, <<LF>>) \o NL_GROUP1)
    ELSE st

external_plugin_html(st, html_list) ==
    IF Contains(st.value, Tok("PLUGIN_HTML"))
    THEN replace(st, Tok("PLUGIN_HTML"), joined(html_list))
    ELSE IF html_list # <<>> THEN sub(st, BODY, join(html_list, <<LF>>) \o NL_GROUP1)
    ELSE st

external_selection_js(st, selection_js) ==
    IF Contains(st.value, Tok("PLUGIN_SELECTION_JS"))
    THEN replace(st, Tok("PLUGIN_SELECTION_JS"), selection_js)
    ELSE IF selection_js # <<>>
    THEN IF Contains(st.value, BODY) THEN sub(st, BODY, script_element(selection_js))
         ELSE IF Contains(st.value, SCRIPT) THEN sub(st, SCRIPT, selection_js \o NL_GROUP1)
         ELSE st
    ELSE st

external_plugin_js(st, js_scripts) ==
    IF Contains(st.value, Tok("PLUGIN_JS"))
    THEN replace(st, Tok("PLUGIN_JS"), joined(js_scripts))
    ELSE IF js_scripts # <<>> THEN sub(st, BODY, join(js_scripts, <<LF>>) \o NL_GROUP1)
    ELSE st

\* generate_html_for_external from "Replace placeholders in template" to the
\* plugin scripts.
external_compose(template_content, dir, list) ==
    external_plugin_js(
     external_selection_js(
      external_plugin_html(
       external_plugin_css(
        external_layout_css(
         put_dropdown(
          put_page_title(
           external_basic_ui_css([raised |-> FALSE, value |-> template_content],
                                 plugins_without_html(list),
                                 generate_basic_plugin_ui_css)),
          generate_dropdown_html(list)),
         generate_layout_css),
        external_plugin_css_links(list)),
       plugin_html_sections(dir, list, INDENT)),
      generate_selection_js(list)),
     external_plugin_js_scripts(list))

(***************************************************************************)
(* generate_html_for_embedded and generate_html_for_external: the result   *)
(* of one call, given the files on disk and the directory listing.         *)
(***************************************************************************)
NoOutput == [dir_exists |-> FALSE, exists |-> FALSE, data |-> <<>>]

Written(d) == [dir_exists |-> TRUE, exists |-> TRUE, data |-> d]

\* What can go wrong while the output is written: os.makedirs raises, open
\* raises, or the write raises after open has truncated the file, with
\* nothing or with a part of the text on disk.
Faults == {"makedirs", "open", "write_nothing", "write_part"}

\* The end of both generators: the output directory is made when missing,
\* the file is opened for writing and the text is written.
write_output(old_output, text, fault) ==
    IF ~old_output.dir_exists /\ fault = "makedirs"
    THEN [exit_code |-> 1, diagnostic |-> "Traceback: OSError", output_file |-> old_output]
    ELSE IF fault = "open"
    THEN [exit_code |-> 1, diagnostic |-> "Error: Failed to write output file",
          output_file |-> [old_output EXCEPT !.dir_exists = TRUE]]
    ELSE IF fault = "write_nothing"
    THEN [exit_code |-> 1, diagnostic |-> "Error: Failed to write output file",
          output_file |-> Written(<<>>)]
    ELSE IF fault = "write_part"
    THEN [exit_code |-> 1, diagnostic |-> "Error: Failed to write output file",
          output_file |-> Written(SubSeq(text, 1, Len(text) - 1))]
    ELSE [exit_code |-> 0, diagnostic |-> "Generated", output_file |-> Written(text)]

\* The header file of the embedded target around the escaped document.
header_content(escaped_content) ==
    <<Gen("header_comment"), Gen("ifndef_guard"), Gen("define_guard"),
      Gen("include_stddef"), Gen("array_open")>>
    \o escaped_content \o <<Gen("array_close"), Gen("endif_guard")>>

generate_html_for_embedded(template, dir, listing, old_output, fault) ==
    LET template_content == read_file_safe(template)
        list == collect_plugin_files(dir, listing)
        composed == embedded_compose(template_content.text, dir, list)
        escaped == escape_c_string(composed.value)
        written == write_output(old_output, header_content(escaped.value), fault)
    IN  IF template_content.none
        THEN [exit_code |-> 1, diagnostic |-> "Error: Template file not found",
              plugins |-> <<>>, dropdown_html |-> <<>>, html_content |-> <<>>,
              output_file |-> old_output]
        ELSE IF composed.raised
        THEN [exit_code |-> 1, diagnostic |-> "Traceback: re.error",
              plugins |-> list, dropdown_html |-> generate_dropdown_html(list),
              html_content |-> composed.value, output_file |-> old_output]
        ELSE IF escaped.raised
        THEN [exit_code |-> 1, diagnostic |-> "Traceback: ValueError",
              plugins |-> list, dropdown_html |-> generate_dropdown_html(list),
              html_content |-> composed.value, output_file |-> old_output]
        ELSE [exit_code |-> written.exit_code, diagnostic |-> written.diagnostic,
              plugins |-> list, dropdown_html |-> generate_dropdown_html(list),
              html_content |-> composed.value, output_file |-> written.output_file]

generate_html_for_external(template, dir, listing, old_output, fault) ==
    LET template_content == read_file_safe(template)
        list == collect_plugin_files(dir, listing)
        composed == external_compose(template_content.text, dir, list)
        written == write_output(old_output, composed.value, fault)
    IN  IF template_content.none
        THEN [exit_code |-> 1, diagnostic |-> "Error: Template file not found",
              plugins |-> <<>>, dropdown_html |-> <<>>, html_content |-> <<>>,
              output_file |-> old_output]
        ELSE IF composed.raised
        THEN [exit_code |-> 1, diagnostic |-> "Traceback: re.error",
              plugins |-> list, dropdown_html |-> generate_dropdown_html(list),
              html_content |-> composed.value, output_file |-> old_output]
        ELSE [exit_code |-> written.exit_code, diagnostic |-> written.diagnostic,
              plugins |-> list, dropdown_html |-> generate_dropdown_html(list),
              html_content |-> composed.value, output_file |-> written.output_file]

(***************************************************************************)
(* The escape tools as a state machine: a text is escaped, the escaped     *)
(* text is unescaped.                                                      *)
(***************************************************************************)
TextChars == {BSL, QUOTE, LF, CR, TAB, NUL, Ch("n"), Ch("r"), Ch("t"), Ch("x")}

GeneratorIdle ==
    /\ mode = "none"
    /\ template_file = [exists |-> FALSE, readable |-> FALSE, data |-> <<>>]
    /\ plugins_dir = [exists |-> FALSE, entries |-> <<>>]
    /\ plugins = <<>>
    /\ dropdown_html = <<>>
    /\ html_content = <<>>
    /\ output_file = NoOutput
    /\ exit_code = 0
    /\ diagnostic = ""
    /\ runs = 0
    /\ first_run = [exit_code |-> 0, html_content |-> <<>>, output_file |-> NoOutput]

InitEscape ==
    /\ content \in SeqUpTo(TextChars, MaxLen)
    /\ original = content
    /\ stage = "raw"
    /\ GeneratorIdle
    /\ ReaderIdle
    /\ PageIdle

\* generate_html.py escapes the composed document.
Escape ==
    /\ stage = "raw"
    /\ LET r == escape_c_string(content)
       IN  /\ content' = r.value
           /\ stage' = IF r.raised THEN "failed" ELSE "escaped"
    /\ UNCHANGED <<original, generator_vars, reader_vars, page_vars>>

\* convert_file_to_c_string.py escapes a plugin file.
ConvertEscape ==
    /\ stage = "raw"
    /\ LET r == convert_escape_c_string(content)
       IN  /\ content' = r.value
           /\ stage' = IF r.raised THEN "failed" ELSE "escaped"
    /\ UNCHANGED <<original, generator_vars, reader_vars, page_vars>>

\* extract_html_template.py unescapes a string literal.
Unescape ==
    /\ stage = "escaped"
    /\ content' = unescape_c_string(content)
    /\ stage' = "unescaped"
    /\ UNCHANGED <<original, generator_vars, reader_vars, page_vars>>

\* extract_html_from_c.py unescapes a string literal.
ExtractUnescape ==
    /\ stage = "escaped"
    /\ content' = extract_unescape_c_string(content)
    /\ stage' = "unescaped"
    /\ UNCHANGED <<original, generator_vars, reader_vars, page_vars>>

NextEscape == Escape \/ ConvertEscape \/ Unescape \/ ExtractUnescape

SpecEscape == InitEscape /\ [][NextEscape]_vars

(***************************************************************************)
(* The generator as a state machine: one process runs the generator up to  *)
(* MaxRuns times on the same template and plugins directory.  Each run     *)
(* gets the directory listing in an order of the file system's choosing.   *)
(***************************************************************************)
Tokens == {Tok("PAGE_TITLE"), Tok("PLUGIN_DROPDOWN"), Tok("PLUGIN_LAYOUT_CSS"),
           Tok("PLUGIN_CSS"), Tok("PLUGIN_HTML"), Tok("PLUGIN_SELECTION_JS"),
           Tok("PLUGIN_JS")}

Anchors == {STYLE, HEAD, BODY, SCRIPT}

TemplateItems == Tokens \cup Anchors \cup {Ch("x")}

Templates == SeqUpTo(TemplateItems, MaxTemplateLen)

Names == {NameOrder[i] : i \in 1..MaxPlugins}

\* A plugin with no assets: it gets the basic UI.
BasicPlugin ==
    [is_dir |-> TRUE, plugin_c |-> TRUE, plugin_h |-> TRUE, name_html |-> NoFile,
     index_html |-> NoFile, css |-> NoFile, js |-> NoFile]

\* A plugin with its own HTML, CSS and JS.
FullPlugin ==
    [is_dir |-> TRUE, plugin_c |-> TRUE, plugin_h |-> TRUE,
     name_html |-> File(<<Ch("h")>>), index_html |-> NoFile,
     css |-> File(<<Ch("c")>>), js |-> File(<<Ch("j")>>)]

\* A plugin whose index.html exists and is empty.
EmptyHtmlPlugin ==
    [is_dir |-> TRUE, plugin_c |-> TRUE, plugin_h |-> TRUE, name_html |-> NoFile,
     index_html |-> File(<<>>), css |-> NoFile, js |-> NoFile]

\* A plugin whose HTML carries its own script element.
ScriptHtmlPlugin ==
    [is_dir |-> TRUE, plugin_c |-> TRUE, plugin_h |-> TRUE,
     name_html |-> File(<<Gen("script_open"), Ch("h"), SCRIPT>>), index_html |-> NoFile,
     css |-> NoFile, js |-> NoFile]

\* A directory with assets but without its <name>_plugin.h.
NotAPlugin ==
    [is_dir |-> TRUE, plugin_c |-> TRUE, plugin_h |-> FALSE,
     name_html |-> File(<<Ch("h")>>), index_html |-> NoFile,
     css |-> File(<<Ch("c")>>), js |-> NoFile]

\* A plugin whose CSS holds a backslash before a letter.
BackslashCssPlugin ==
    [is_dir |-> TRUE, plugin_c |-> TRUE, plugin_h |-> TRUE,
     name_html |-> File(<<Ch("h")>>), index_html |-> NoFile,
     css |-> File(<<Ch("c"), BSL, Ch("d")>>), js |-> NoFile]

\* A plugin whose HTML holds the characters of a placeholder token.
TokenHtmlPlugin ==
    [is_dir |-> TRUE, plugin_c |-> TRUE, plugin_h |-> TRUE,
     name_html |-> NoFile, index_html |-> File(<<Ch("h"), Tok("PLUGIN_JS")>>),
     css |-> NoFile, js |-> File(<<Ch("j")>>)]

\* An entry of the plugins directory that is a plain file.
PlainFile ==
    [is_dir |-> FALSE, plugin_c |-> FALSE, plugin_h |-> FALSE, name_html |-> NoFile,
     index_html |-> NoFile, css |-> NoFile, js |-> NoFile]

Entries == {BasicPlugin, FullPlugin, EmptyHtmlPlugin, ScriptHtmlPlugin, NotAPlugin,
            BackslashCssPlugin, TokenHtmlPlugin, PlainFile}

NoDir == [exists |-> FALSE, entries |-> <<>>]

Dir(f) == [exists |-> TRUE, entries |-> f]

\* Every plugins directory of at most MaxPlugins entries.
Dirs ==
    {NoDir} \cup {Dir(f) : f \in UNION {[S -> Entries] : S \in SUBSET Names}}

\* The directories every template is composed with.
ScenarioDirs ==
    {NoDir,
     Dir(<<>>),
     Dir([x \in {"effects", "sequence"} |->
             IF x = "effects" THEN FullPlugin ELSE BasicPlugin]),
     Dir([x \in {"effects", "sequence"} |->
             IF x = "effects" THEN BasicPlugin ELSE FullPlugin]),
     Dir([x \in {"effects", "sequence"} |-> BasicPlugin]),
     Dir([x \in {"effects"} |-> ScriptHtmlPlugin]),
     Dir([x \in {"effects"} |-> EmptyHtmlPlugin])}

\* A page that uses every token, and the same page with none.
TokenPage ==
    <<Tok("PAGE_TITLE"), Ch("x"), Tok("PLUGIN_LAYOUT_CSS"), Tok("PLUGIN_CSS"), STYLE, HEAD,
      Tok("PLUGIN_DROPDOWN"), Ch("x"), Tok("PLUGIN_HTML"), Ch("x"),
      Tok("PLUGIN_SELECTION_JS"), Tok("PLUGIN_JS"), SCRIPT, BODY>>

FallbackPage == <<Ch("x"), STYLE, HEAD, Ch("x"), Ch("x"), SCRIPT, BODY>>

\* A template that holds a NUL character.
NulPage == <<Ch("x"), NUL, STYLE, BODY>>

\* The inputs of a process: every short template with every scenario
\* directory, and the two pages with every directory.
Inputs ==
    {[t |-> tf, d |-> dir] : tf \in {NoFile, File(NulPage)} \cup {File(t) : t \in Templates},
                             dir \in ScenarioDirs}
    \cup {[t |-> File(page), d |-> dir] : page \in {TokenPage, FallbackPage}, dir \in Dirs}

\* The orders os.listdir may return the entries in.
Listings(dir) ==
    LET D == DOMAIN dir.entries
        n == Cardinality(D)
    IN  {l \in [1..n -> D] : \A i, j \in 1..n : i # j => l[i] # l[j]}

EscapeIdle ==
    /\ content = <<>>
    /\ original = <<>>
    /\ stage = "idle"

Init ==
    /\ EscapeIdle
    /\ ReaderIdle
    /\ PageIdle
    /\ mode \in {"embedded", "external"}
    /\ \E i \in Inputs : template_file = i.t /\ plugins_dir = i.d
    /\ plugins = <<>>
    /\ dropdown_html = <<>>
    /\ html_content = <<>>
    /\ output_file = NoOutput
    /\ exit_code = 0
    /\ diagnostic = ""
    /\ runs = 0
    /\ first_run = [exit_code |-> 0, html_content |-> <<>>, output_file |-> NoOutput]

\* What a finished run leaves behind.
Finish(r) ==
    /\ plugins' = r.plugins
    /\ dropdown_html' = r.dropdown_html
    /\ html_content' = r.html_content
    /\ output_file' = r.output_file
    /\ exit_code' = r.exit_code
    /\ diagnostic' = r.diagnostic
    /\ runs' = runs + 1
    /\ first_run' = IF runs = 0
                    THEN [exit_code |-> r.exit_code, html_content |-> r.html_content,
                          output_file |-> r.output_file]
                    ELSE first_run
    /\ UNCHANGED <<escape_vars, reader_vars, page_vars, mode, template_file, plugins_dir>>

\* main with mode "embedded".
GenerateEmbedded ==
    /\ mode = "embedded"
    /\ runs < MaxRuns
    /\ \E listing \in Listings(plugins_dir) :
           Finish(generate_html_for_embedded(template_file, plugins_dir, listing,
                                             output_file, "none"))

\* main with mode "external".
GenerateExternal ==
    /\ mode = "external"
    /\ runs < MaxRuns
    /\ \E listing \in Listings(plugins_dir) :
           Finish(generate_html_for_external(template_file, plugins_dir, listing,
                                             output_file, "none"))

Next == GenerateEmbedded \/ GenerateExternal

Spec == Init /\ [][Next]_vars

(***************************************************************************)
(* Claims about the escape tools                                           *)
(***************************************************************************)

\* C1: for every text without NUL, escaping and then unescaping returns the
\* original text, also when it holds a backslash followed by n, r, t or a
\* double quote.
RoundTrip == stage = "unescaped" => content = original

\* The per-character reference mapping of a C string literal.
EscapeChar(c) ==
    IF c = BSL THEN <<BSL, BSL>>
    ELSE IF c = QUOTE THEN <<BSL, QUOTE>>
    ELSE IF c = LF THEN <<BSL, Ch("n")>>
    ELSE IF c = CR THEN <<BSL, Ch("r")>>
    ELSE IF c = TAB THEN <<BSL, Ch("t")>>
    ELSE <<c>>

RECURSIVE EscapeReference(_)
EscapeReference(s) ==
    IF s = <<>> THEN <<>> ELSE EscapeChar(Head(s)) \o EscapeReference(Tail(s))

\* C2: the five replacements, in the order backslash, quote, newline,
\* carriage return, tab, give exactly the per-character reference mapping for
\* every text without NUL: no backslash a later step inserts is escaped again.
EscapeMatchesReference ==
    stage = "escaped" => content = EscapeReference(original)

\* C2 witness: a text holding a backslash and a newline has been escaped.
EscapeMatchesReferenceWitness ==
    /\ stage = "escaped"
    /\ Contains(original, BSL)
    /\ Contains(original, LF)
    /\ content = EscapeReference(original)

(***************************************************************************)
(* Claims about the generator                                              *)
(***************************************************************************)
Ran == runs > 0

\* The last run got as far as a composed document and wrote it.
Composed == runs > 0 /\ exit_code = 0

template_text == template_file.data

\* Number of places where c occurs in doc as a contiguous part.
Occurrences(doc, c) ==
    Cardinality({i \in 1..(Len(doc) - Len(c) + 1) : SubSeq(doc, i, i + Len(c) - 1) = c})

\* The insertion points that have a fallback, by token name.
Points == {"PLUGIN_LAYOUT_CSS", "PLUGIN_CSS", "PLUGIN_HTML", "PLUGIN_SELECTION_JS",
           "PLUGIN_JS"}

\* The text the last run generated for an insertion point.
PointContent(p) ==
    IF p = "PAGE_TITLE" THEN PAGE_TITLE
    ELSE IF p = "PLUGIN_DROPDOWN" THEN generate_dropdown_html(plugins)
    ELSE IF p = "PLUGIN_LAYOUT_CSS" THEN generate_layout_css
    ELSE IF p = "PLUGIN_CSS"
    THEN IF mode = "embedded" THEN joined(embedded_plugin_css_content(plugins_dir, plugins))
         ELSE joined(external_plugin_css_links(plugins))
    ELSE IF p = "PLUGIN_HTML"
    THEN joined(plugin_html_sections(plugins_dir, plugins,
                                     IF mode = "embedded" THEN <<>> ELSE INDENT))
    ELSE IF p = "PLUGIN_SELECTION_JS" THEN generate_selection_js(plugins)
    ELSE IF mode = "embedded" THEN joined(embedded_plugin_js_content(plugins_dir, plugins))
    ELSE joined(external_plugin_js_scripts(plugins))

\* The closing tag the fallback of an insertion point looks for in template t.
AnchorOf(p, t) ==
    IF mode = "embedded"
    THEN IF p \in {"PLUGIN_LAYOUT_CSS", "PLUGIN_CSS"} THEN STYLE
         ELSE IF p = "PLUGIN_HTML" THEN BODY
         ELSE SCRIPT
    ELSE IF p = "PLUGIN_LAYOUT_CSS" THEN (IF Contains(t, HEAD) THEN HEAD ELSE STYLE)
         ELSE IF p = "PLUGIN_CSS" THEN HEAD
         ELSE IF p = "PLUGIN_SELECTION_JS" THEN (IF Contains(t, BODY) THEN BODY ELSE SCRIPT)
         ELSE BODY

\* The names of the directory entries that are plugins.
ValidNames ==
    {x \in DOMAIN plugins_dir.entries :
        LET e == plugins_dir.entries[x] IN e.is_dir /\ e.plugin_c /\ e.plugin_h}

\* C3: a second run on the same template and plugins directory, in the same
\* process and whatever order the directory listing comes in, ends as the
\* first did: same exit status, same composed document, same output file.
RunsAgree ==
    runs >= 2 =>
        /\ exit_code = first_run.exit_code
        /\ html_content = first_run.html_content
        /\ output_file = first_run.output_file

\* C3 witness: the embedded target has run twice on a directory of two
\* plugins, one of them with the shared basic UI, and wrote its output.
RunsAgreeWitness ==
    /\ runs = 2
    /\ mode = "embedded"
    /\ exit_code = 0
    /\ output_file.exists
    /\ Len(plugins) = 2
    /\ plugins_without_html(plugins) # <<>>
    /\ Contains(html_content, Gen("basic_plugin_ui_css"))

\* C4: when the template holds the token of an insertion point, the point's
\* content is in the composed document exactly once.
TokenContentOnce ==
    \A p \in Points :
        (Composed /\ Contains(template_text, Tok(p)) /\ PointContent(p) # <<>>)
            => Occurrences(html_content, PointContent(p)) = 1

\* The template with a probe in front of and behind its first tag a.  A probe
\* is plain text no step of the composition looks for.
Probed(t, a) ==
    LET i == FirstIndex(t, a)
    IN  SubSeq(t, 1, i - 1) \o <<Ch("probe_before"), a, Ch("probe_after")>>
        \o SubSeq(t, i + 1, Len(t))

ComposeOf(t) ==
    IF mode = "embedded" THEN embedded_compose(t, plugins_dir, plugins)
    ELSE external_compose(t, plugins_dir, plugins)

\* In the document composed from the probed template, c occurs once, after
\* the probe in front of the tag and before the tag itself.
LandsBeforeFirst(t, a, c) ==
    LET r == ComposeOf(Probed(t, a))
        d == r.value
    IN  /\ ~r.raised
        /\ Occurrences(d, c) = 1
        /\ \E i \in 1..Len(d) :
              /\ SubSeq(d, i, i + Len(c) - 1) = c
              /\ FirstIndex(d, Ch("probe_before")) < i
              /\ i + Len(c) - 1 < FirstIndex(d, Ch("probe_after")) - 1

\* C5: when the template lacks the token of an insertion point but holds the
\* point's closing tag, non-empty content is inserted once, before the first
\* occurrence of that tag in the template, and nowhere else.
FallbackBeforeFirstAnchor ==
    \A p \in Points :
        (Ran /\ diagnostic # "Error: Template file not found"
         /\ ~Contains(template_text, Tok(p))
         /\ PointContent(p) # <<>>
         /\ Contains(template_text, AnchorOf(p, template_text)))
            => LandsBeforeFirst(template_text, AnchorOf(p, template_text), PointContent(p))

\* C6: whatever the template, non-empty content of an insertion point is in
\* the composed document.
ContentNeverDropped ==
    \A p \in Points :
        (Composed /\ PointContent(p) # <<>>)
            => Occurrences(html_content, PointContent(p)) >= 1

\* C7: a template that holds a token twice receives the content once.
FirstOccurrenceOnly ==
    \A p \in Points \cup {"PAGE_TITLE", "PLUGIN_DROPDOWN"} :
        (Composed /\ Count(template_text, Tok(p)) = 2 /\ PointContent(p) # <<>>)
            => Occurrences(html_content, PointContent(p)) = 1

\* C8: the layout CSS, the basic-UI CSS and the basic-UI JS are each in the
\* composed document at most once; the basic-UI CSS and JS exactly once when
\* a plugin has no HTML asset and not at all otherwise.
SharedFragmentsOnce ==
    Composed =>
        /\ Count(html_content, Gen("layout_css")) <= 1
        /\ Count(html_content, Gen("basic_plugin_ui_css")) <= 1
        /\ Count(html_content, Gen("basic_plugin_ui_js")) <= 1
        /\ plugins_without_html(plugins) # <<>> =>
              /\ Count(html_content, Gen("basic_plugin_ui_css")) = 1
              /\ Count(html_content, Gen("basic_plugin_ui_js")) = 1
        /\ plugins_without_html(plugins) = <<>> =>
              /\ Count(html_content, Gen("basic_plugin_ui_css")) = 0
              /\ Count(html_content, Gen("basic_plugin_ui_js")) = 0

\* The positions of c that hold an item of one of the kinds.
PositionsOf(c, kinds) == {i \in 1..Len(c) : c[i].k \in kinds}

\* In c every shared basic-UI fragment stands before every per-plugin
\* fragment, and the per-plugin fragments stand in ascending name order.
SharedFirstThenByName(c, kinds) ==
    /\ \A i \in PositionsOf(c, {"gen"}), j \in PositionsOf(c, kinds) :
          c[i].n \in {"basic_plugin_ui_css", "basic_plugin_ui_js"} => i < j
    /\ \A i, j \in PositionsOf(c, kinds) : i < j => Rank(c[i].n) < Rank(c[j].n)

\* C9: in the per-plugin CSS, JS and HTML contents the shared fragments come
\* first and the per-plugin fragments follow in PluginSet order.
FragmentOrder ==
    (Ran /\ diagnostic # "Error: Template file not found") =>
        /\ SharedFirstThenByName(PointContent("PLUGIN_CSS"), {"plugin_comment", "css_link"})
        /\ SharedFirstThenByName(PointContent("PLUGIN_JS"), {"plugin_comment", "js_script"})
        /\ SharedFirstThenByName(PointContent("PLUGIN_HTML"), {"section_open"})

\* The option items of a dropdown.
Options(d) == SelectSeq(d, LAMBDA it : it.k \in {"option", "option_selected"})

\* C10: the dropdown has one option per plugin of the directory, in ascending
\* name order, and the first option and no other is selected; without a
\* plugin the dropdown is the empty string.
DropdownOrdered ==
    (Ran /\ diagnostic # "Error: Template file not found") =>
        LET o == Options(dropdown_html)
        IN  /\ ValidNames = {} => dropdown_html = <<>>
            /\ Len(o) = Cardinality(ValidNames)
            /\ {o[i].n : i \in 1..Len(o)} = ValidNames
            /\ \A i, j \in 1..Len(o) : i < j => Rank(o[i].n) < Rank(o[j].n)
            /\ \A i \in 1..Len(o) : (o[i].k = "option_selected") <=> (i = 1)

\* C10 witness: a dropdown of two options, the first one selected.
DropdownOrderedWitness ==
    /\ Ran
    /\ Len(Options(dropdown_html)) = 2
    /\ Options(dropdown_html)[1] = Per("option_selected", "effects")
    /\ Options(dropdown_html)[2] = Per("option", "sequence")

(***************************************************************************)
(* The dropdown option of one plugin, character by character.              *)
(***************************************************************************)
AMP == Ch("AMP")
LT == Ch("LT")
GT == Ch("GT")
UNDERSCORE == Ch("UNDERSCORE")
SPACE == Ch("SPACE")
SEMI == Ch("SEMI")

Entity(name) == <<AMP>> \o [i \in 1..Len(name) |-> Ch(name[i])] \o <<SEMI>>

\* str.upper and str.lower on one character: a and A stand for the letters.
upper(c) == IF c = Ch("a") THEN Ch("A") ELSE c

lower(c) == IF c = Ch("A") THEN Ch("a") ELSE c

\* str.capitalize: the first character upper case, the rest lower case.
capitalize(word) ==
    [i \in 1..Len(word) |-> IF i = 1 THEN upper(word[i]) ELSE lower(word[i])]

\* str.split(): the maximal runs of characters that are not white space.
RECURSIVE split(_)
split(s) ==
    IF s = <<>> THEN <<>>
    ELSE IF Head(s) = SPACE THEN split(Tail(s))
    ELSE LET stops == {i \in 1..Len(s) : s[i] = SPACE}
             n == IF stops = {} THEN Len(s)
                  ELSE (CHOOSE i \in stops : \A j \in stops : i <= j) - 1
         IN  <<SubSeq(s, 1, n)>> \o split(SubSeq(s, n + 1, Len(s)))

format_plugin_display_name(plugin_name) ==
    IF plugin_name = <<>> THEN <<>>
    ELSE LET display_name == str_replace(plugin_name, <<UNDERSCORE>>, <<SPACE>>)
             words == split(display_name)
         IN  join([i \in 1..Len(words) |-> capitalize(words[i])], <<SPACE>>)

plugin_name_escaped(name) ==
    str_replace(str_replace(str_replace(str_replace(name,
        <<AMP>>, Entity(<<"a", "m", "p">>)),
        <<LT>>, Entity(<<"l", "t">>)),
        <<GT>>, Entity(<<"g", "t">>)),
        <<QUOTE>>, Entity(<<"q", "u", "o", "t">>))

display_name_escaped(display_name) ==
    str_replace(str_replace(str_replace(display_name,
        <<AMP>>, Entity(<<"a", "m", "p">>)),
        <<LT>>, Entity(<<"l", "t">>)),
        <<GT>>, Entity(<<"g", "t">>))

\* One option of generate_dropdown_html; first says that no option was
\* appended before it.
dropdown_option(name, first) ==
    <<Gen("option_value_open")>> \o plugin_name_escaped(name) \o <<QUOTE>>
    \o (IF first THEN <<Gen("selected_attr")>> ELSE <<>>) \o <<GT>>
    \o display_name_escaped(format_plugin_display_name(name))
    \o <<Gen("option_close")>>

NameChars == {Ch("a"), Ch("A"), UNDERSCORE, SPACE, AMP, LT, GT, QUOTE}

\* A plugin name is a directory name: it is not empty.
InitDropdown ==
    /\ content \in SeqUpTo(NameChars, MaxLen) \ {<<>>}
    /\ original = content
    /\ stage = "name"
    /\ GeneratorIdle
    /\ ReaderIdle
    /\ PageIdle

\* The loop body of generate_dropdown_html for the first plugin.
FirstOption ==
    /\ stage = "name"
    /\ content' = dropdown_option(content, TRUE)
    /\ stage' = "first_option"
    /\ UNCHANGED <<original, generator_vars, reader_vars, page_vars>>

\* The loop body of generate_dropdown_html for a later plugin.
LaterOption ==
    /\ stage = "name"
    /\ content' = dropdown_option(content, FALSE)
    /\ stage' = "later_option"
    /\ UNCHANGED <<original, generator_vars, reader_vars, page_vars>>

NextDropdown == FirstOption \/ LaterOption

SpecDropdown == InitDropdown /\ [][NextDropdown]_vars

(***************************************************************************)
(* Claims about the dropdown option                                        *)
(***************************************************************************)
\* The reference escaping of one character for an HTML attribute.
HtmlEscapeChar(c) ==
    IF c = AMP THEN Entity(<<"a", "m", "p">>)
    ELSE IF c = LT THEN Entity(<<"l", "t">>)
    ELSE IF c = GT THEN Entity(<<"g", "t">>)
    ELSE IF c = QUOTE THEN Entity(<<"q", "u", "o", "t">>)
    ELSE <<c>>

RECURSIVE HtmlEscapeReference(_)
HtmlEscapeReference(s) ==
    IF s = <<>> THEN <<>> ELSE HtmlEscapeChar(Head(s)) \o HtmlEscapeReference(Tail(s))

\* C11: in an option both the value and the label are escaped for the four
\* characters & < > and double quote, and the label is the name with
\* underscores replaced by spaces and each word capitalized.
OptionEscaped ==
    stage \in {"first_option", "later_option"} =>
        content = <<Gen("option_value_open")>> \o HtmlEscapeReference(original) \o <<QUOTE>>
                  \o (IF stage = "first_option" THEN <<Gen("selected_attr")>> ELSE <<>>)
                  \o <<GT>>
                  \o HtmlEscapeReference(format_plugin_display_name(original))
                  \o <<Gen("option_close")>>

(***************************************************************************)
(* collect_plugin_files on its own: every shape of directory entry.        *)
(***************************************************************************)
Presence(d) == {NoFile, File(d)}

\* Directories with both marker files, with every combination of assets.
PluginEntries ==
    {[is_dir |-> TRUE, plugin_c |-> TRUE, plugin_h |-> TRUE, name_html |-> n,
      index_html |-> i, css |-> c, js |-> j] :
        n \in Presence(<<Ch("h")>>), i \in Presence(<<Ch("x")>>),
        c \in Presence(<<Ch("c")>>), j \in Presence(<<Ch("j")>>)}

\* Directories that lack a marker file, with all their assets in place.
UnmarkedEntries ==
    {[is_dir |-> TRUE, plugin_c |-> c, plugin_h |-> h, name_html |-> File(<<Ch("h")>>),
      index_html |-> File(<<Ch("x")>>), css |-> File(<<Ch("c")>>),
      js |-> File(<<Ch("j")>>)] : c, h \in BOOLEAN} \ PluginEntries

CollectEntries == PluginEntries \cup UnmarkedEntries \cup {PlainFile}

CollectDirs ==
    {NoDir} \cup {Dir(f) : f \in UNION {[S -> CollectEntries] : S \in SUBSET Names}}

InitCollect ==
    /\ EscapeIdle
    /\ ReaderIdle
    /\ PageIdle
    /\ mode = "collect"
    /\ template_file = NoFile
    /\ plugins_dir \in CollectDirs
    /\ plugins = <<>>
    /\ dropdown_html = <<>>
    /\ html_content = <<>>
    /\ output_file = NoOutput
    /\ exit_code = 0
    /\ diagnostic = ""
    /\ runs = 0
    /\ first_run = [exit_code |-> 0, html_content |-> <<>>, output_file |-> NoOutput]

\* One call of collect_plugin_files.
Collect ==
    /\ mode = "collect"
    /\ runs = 0
    /\ \E listing \in Listings(plugins_dir) :
           plugins' = collect_plugin_files(plugins_dir, listing)
    /\ runs' = 1
    /\ UNCHANGED <<escape_vars, reader_vars, page_vars, mode, template_file, plugins_dir, dropdown_html,
                   html_content, output_file, exit_code, diagnostic, first_run>>

NextCollect == Collect

SpecCollect == InitCollect /\ [][NextCollect]_vars

(***************************************************************************)
(* Claims about collect_plugin_files                                       *)
(***************************************************************************)
Collected == mode = "collect" /\ runs = 1

PluginNames == {plugins[i].name : i \in 1..Len(plugins)}

\* C12: a subdirectory is in the PluginSet exactly when both its
\* <name>_plugin.c and its <name>_plugin.h exist; a subdirectory without
\* either, and an entry that is no directory, is skipped.
MarkedDirectoriesOnly ==
    Collected =>
        /\ PluginNames = ValidNames
        /\ Len(plugins) = Cardinality(ValidNames)

\* C12 witness: the directory holds a plugin and a subdirectory that lacks
\* one marker file, and only the plugin was collected.
MarkedDirectoriesOnlyWitness ==
    /\ Collected
    /\ Len(plugins) = 1
    /\ \E x \in DOMAIN plugins_dir.entries :
          LET e == plugins_dir.entries[x]
          IN  e.is_dir /\ e.plugin_c /\ ~e.plugin_h /\ x \notin PluginNames

\* C13: the HTML asset of a plugin is <name>.html when it exists, else
\* index.html when that exists, else none; the CSS asset is css/<name>.css
\* or none, the JS asset js/<name>.js or none.
AssetResolution ==
    Collected =>
        \A i \in 1..Len(plugins) :
            LET p == plugins[i]
                e == plugins_dir.entries[p.name]
            IN  /\ e.name_html.exists => p.html_file = "name.html"
                /\ (~e.name_html.exists /\ e.index_html.exists) => p.html_file = "index.html"
                /\ (~e.name_html.exists /\ ~e.index_html.exists) => p.html_file = "None"
                /\ p.css_file = (IF e.css.exists THEN "css" ELSE "None")
                /\ p.js_file = (IF e.js.exists THEN "js" ELSE "None")

\* C13 witness: a collected plugin has both <name>.html and index.html and
\* its HTML asset is <name>.html.
AssetResolutionWitness ==
    /\ Collected
    /\ \E i \in 1..Len(plugins) :
          LET e == plugins_dir.entries[plugins[i].name]
          IN  /\ e.name_html.exists /\ e.index_html.exists
              /\ plugins[i].html_file = "name.html"
              /\ plugins[i].css_file = "None"

\* C14: the PluginSet is strictly ascending by name, whatever the order of
\* the directory listing.
StrictlyAscending ==
    Collected =>
        \A i, j \in 1..Len(plugins) : i < j => Rank(plugins[i].name) < Rank(plugins[j].name)

\* C14 witness: two plugins were collected, the lesser name first.
StrictlyAscendingWitness ==
    /\ Collected
    /\ Len(plugins) = 2
    /\ plugins[1].name = "effects"
    /\ plugins[2].name = "sequence"

(***************************************************************************)
(* Claims about the fatal paths of the generator                           *)
(***************************************************************************)
\* C15: when the template path does not exist, either target ends with exit
\* code 1 and the diagnostic that names the template file, and neither the
\* output directory nor the output file has been created.
MissingTemplateFails ==
    (Ran /\ ~template_file.exists) =>
        /\ exit_code = 1
        /\ diagnostic = "Error: Template file not found"
        /\ ~output_file.dir_exists
        /\ ~output_file.exists

\* C15 witness: the external target has run on a missing template and an
\* existing plugins directory with a plugin in it.
MissingTemplateFailsWitness ==
    /\ Ran
    /\ mode = "external"
    /\ ~template_file.exists
    /\ ValidNames # {}
    /\ exit_code = 1
    /\ output_file = NoOutput

\* C16: on the embedded target a composed document that holds a NUL makes
\* escaping fail: exit code 1, the ValueError of the escaping step, no output
\* file and no output directory; a document without NUL never fails there.
NulFailsEscaping ==
    (Ran /\ mode = "embedded" /\ template_file.exists /\ diagnostic # "Traceback: re.error") =>
        /\ Contains(html_content, NUL) =>
              /\ exit_code = 1
              /\ diagnostic = "Traceback: ValueError"
              /\ ~output_file.dir_exists
              /\ ~output_file.exists
        /\ ~Contains(html_content, NUL) =>
              /\ exit_code = 0
              /\ diagnostic = "Generated"
              /\ output_file.exists

\* C16 witness: the embedded target composed a document with a NUL from a
\* template and plugins, and ended with the ValueError and without output.
NulFailsEscapingWitness ==
    /\ Ran
    /\ mode = "embedded"
    /\ Contains(template_text, NUL)
    /\ Len(plugins) = 2
    /\ Contains(html_content, NUL)
    /\ Contains(html_content, Gen("layout_css"))
    /\ diagnostic = "Traceback: ValueError"
    /\ output_file = NoOutput

(***************************************************************************)
(* The generator with an output path that may hold an earlier file and a   *)
(* file system that may fail while the output is written.                  *)
(***************************************************************************)
\* The output path before the first run: nothing, the directory only, or a
\* complete file of an earlier build.
EarlierOutputs ==
    {NoOutput,
     [dir_exists |-> TRUE, exists |-> FALSE, data |-> <<>>],
     Written(<<Gen("earlier_output")>>)}

WriteInputs ==
    {[t |-> tf, d |-> dir] :
        tf \in {NoFile, File(<<>>), File(FallbackPage), File(NulPage)},
        dir \in {NoDir, Dir([x \in {"effects", "sequence"} |->
                                IF x = "effects" THEN FullPlugin ELSE BasicPlugin])}}

InitWrite ==
    /\ EscapeIdle
    /\ ReaderIdle
    /\ PageIdle
    /\ mode \in {"embedded", "external"}
    /\ \E i \in WriteInputs : template_file = i.t /\ plugins_dir = i.d
    /\ plugins = <<>>
    /\ dropdown_html = <<>>
    /\ html_content = <<>>
    /\ output_file \in EarlierOutputs
    /\ exit_code = 0
    /\ diagnostic = ""
    /\ runs = 0
    /\ first_run = [exit_code |-> 0, html_content |-> <<>>, output_file |-> NoOutput]

\* main with mode "embedded" while the file system fails.
EmbeddedWriteFails ==
    /\ mode = "embedded"
    /\ runs < MaxRuns
    /\ \E listing \in Listings(plugins_dir), fault \in Faults :
           /\ fault = "makedirs" => ~output_file.dir_exists
           /\ Finish(generate_html_for_embedded(template_file, plugins_dir, listing,
                                                output_file, fault))

\* main with mode "external" while the file system fails.
ExternalWriteFails ==
    /\ mode = "external"
    /\ runs < MaxRuns
    /\ \E listing \in Listings(plugins_dir), fault \in Faults :
           /\ fault = "makedirs" => ~output_file.dir_exists
           /\ Finish(generate_html_for_external(template_file, plugins_dir, listing,
                                                output_file, fault))

NextWrite == GenerateEmbedded \/ GenerateExternal \/ EmbeddedWriteFails \/ ExternalWriteFails

SpecWrite == InitWrite /\ [][NextWrite]_vars

\* The diagnostics of a failure to make the directory, to open or to write.
WriteDiagnostics == {"Traceback: OSError", "Error: Failed to write output file"}

\* C17: a run in which writing the output fails ends with exit code 1 and a
\* diagnostic, and the output path then either does not exist or holds the
\* complete content it had before the run.
NoPartialOutput ==
    [][(runs' = runs + 1 /\ diagnostic' \in WriteDiagnostics) =>
          /\ exit_code' = 1
          /\ \/ ~output_file'.exists
             \/ output_file.exists /\ output_file'.data = output_file.data]_vars

(***************************************************************************)
(* Claims about the emitted artifacts                                      *)
(***************************************************************************)
\* C18: the header file of the embedded target holds, inside the header
\* guard, the character array with the escaped document and a size constant
\* defined as the size of the array minus one.
HeaderHasSizeConstant ==
    (Composed /\ mode = "embedded") =>
        LET h == output_file.data
        IN  /\ Contains(h, Gen("ifndef_guard"))
            /\ Contains(h, Gen("array_open"))
            /\ Contains(h, Gen("size_constant"))
            /\ Contains(h, Gen("endif_guard"))
            /\ FirstIndex(h, Gen("ifndef_guard")) < FirstIndex(h, Gen("array_open"))
            /\ FirstIndex(h, Gen("array_open")) < FirstIndex(h, Gen("size_constant"))
            /\ FirstIndex(h, Gen("size_constant")) < FirstIndex(h, Gen("endif_guard"))

\* C19: on the external target the document links css/<name>.css exactly
\* for the plugins with a CSS asset and js/<name>.js exactly for those with
\* a JS asset, never holds the text of a plugin's CSS or JS file, and holds
\* the plugin HTML and the basic-UI markup, style and script inline.
ExternalLinksAssets ==
    (Composed /\ mode = "external") =>
        /\ \A i \in 1..Len(plugins) :
              LET p == plugins[i]
              IN  /\ Contains(html_content, Per("css_link", p.name)) <=> p.css_file # "None"
                  /\ Contains(html_content, Per("js_script", p.name)) <=> p.js_file # "None"
                  /\ \A k \in 1..Len(css_of(plugins_dir, p).text) :
                        ~Contains(html_content, css_of(plugins_dir, p).text[k])
                  /\ \A k \in 1..Len(js_of(plugins_dir, p).text) :
                        ~Contains(html_content, js_of(plugins_dir, p).text[k])
                  /\ Truthy(html_of(plugins_dir, p)) =>
                        Occurrences(html_content, html_of(plugins_dir, p).text) >= 1
                  /\ p.html_file = "None" =>
                        Contains(html_content, Per("basic_plugin_ui", p.name))
        /\ plugins_without_html(plugins) # <<>> =>
              /\ Contains(html_content, Gen("basic_plugin_ui_css"))
              /\ Contains(html_content, Gen("basic_plugin_ui_js"))

(***************************************************************************)
(* Claims about the empty PluginSet                                        *)
(***************************************************************************)
PluginTokens == {"PLUGIN_DROPDOWN", "PLUGIN_LAYOUT_CSS", "PLUGIN_CSS", "PLUGIN_HTML",
                 "PLUGIN_SELECTION_JS", "PLUGIN_JS"}

\* The template with every plugin token resolved to the empty text and the
\* page title in place of its token; all other text as it is.
ResolvedToEmpty(t) ==
    [i \in 1..Len(SelectSeq(t, LAMBDA it : it.k # "tok" \/ it.n \notin PluginTokens)) |->
        LET it == SelectSeq(t, LAMBDA x : x.k # "tok" \/ x.n \notin PluginTokens)[i]
        IN  IF it = Tok("PAGE_TITLE") THEN PAGE_TITLE[1] ELSE it]

\* C20: with an empty PluginSet every plugin-related insertion point
\* resolves to empty content, and the composed document is the template
\* with nothing changed outside its insertion points, the text before every
\* closing tag included.
EmptyPluginSetFrame ==
    (Composed /\ plugins = <<>>) =>
        /\ \A p \in PluginTokens : PointContent(p) = <<>>
        /\ html_content = ResolvedToEmpty(template_text)

\* a is in b, in order: the leftmost match of each item of a is taken.
RECURSIVE IsSubsequence(_, _)
IsSubsequence(a, b) ==
    IF a = <<>> THEN TRUE
    ELSE IF ~Contains(b, Head(a)) THEN FALSE
    ELSE IsSubsequence(Tail(a), SubSeq(b, FirstIndex(b, Head(a)) + 1, Len(b)))

\* The text of a template outside its tokens.
TextOutsideTokens(t) == SelectSeq(t, LAMBDA it : it.k # "tok")

\* Template text that no generated fragment holds.
TemplateOnly == {Ch("x"), NUL, HEAD, BODY, SCRIPT}

\* What the generator adds when there is no plugin: the page title, the
\* layout CSS (on the external target in a style element of its own), the
\* mesh-control CSS and JS of the embedded target, and line breaks.
AddedWithoutPlugins ==
    {Gen("page_title"), Gen("layout_css"), Gen("mesh_control_css"),
     Gen("mesh_control_js_head"), Gen("mesh_control_js_tail"), BSL, Ch("d"), LF,
     Gen("indent"), Gen("style_open"), STYLE}

\* C20 as amended: with an empty PluginSet the dropdown, the plugin CSS, the
\* plugin HTML, the selection script and the plugin JS are empty, no token
\* is left in the document, all template text outside the tokens is kept,
\* unchanged and in order, and what is added is only the page title, the
\* layout CSS and, on the embedded target, the mesh-control CSS and JS.
EmptyPluginSetKeepsTemplate ==
    (Composed /\ plugins = <<>>) =>
        /\ \A p \in PluginTokens \ {"PLUGIN_LAYOUT_CSS"} : PointContent(p) = <<>>
        /\ \A i \in 1..Len(html_content) : html_content[i].k # "tok"
        /\ IsSubsequence(TextOutsideTokens(template_text), html_content)
        /\ SelectSeq(html_content, LAMBDA it : it \in TemplateOnly)
              = SelectSeq(template_text, LAMBDA it : it \in TemplateOnly)
        /\ Count(html_content, STYLE) <= Count(template_text, STYLE) + 1
        /\ \A i \in 1..Len(html_content) :
              html_content[i] \in TemplateOnly \cup AddedWithoutPlugins
        /\ mode = "external" =>
              \A i \in 1..Len(html_content) :
                  html_content[i] \notin {Gen("mesh_control_css"), Gen("mesh_control_js_head")}

\* C20 witness: the embedded target composed the page without tokens over
\* an existing plugins directory without a plugin; the layout CSS and the
\* mesh-control CSS stand before the closing style tag.
EmptyPluginSetKeepsTemplateWitness ==
    /\ Composed
    /\ mode = "embedded"
    /\ plugins_dir.exists
    /\ plugins = <<>>
    /\ template_text = FallbackPage
    /\ SubSeq(html_content, 1, 6)
          = <<Ch("x"), Gen("layout_css"), LF, Gen("mesh_control_css"), LF, STYLE>>

(***************************************************************************)
(* Claims about the plugin sections                                        *)
(***************************************************************************)
\* C21: every plugin of the PluginSet has exactly one section in the
\* composed document: its custom HTML when that was loaded, otherwise the
\* basic UI; a plugin whose HTML file was found but is empty or unreadable
\* gets the basic UI.  Stated for the templates that have a place for the
\* sections, the token once or the closing body tag.
EveryPluginHasSection ==
    (Composed /\ (Count(template_text, Tok("PLUGIN_HTML")) = 1
                  \/ (~Contains(template_text, Tok("PLUGIN_HTML"))
                      /\ Contains(template_text, BODY)))) =>
        \A i \in 1..Len(plugins) :
            LET p == plugins[i]
            IN  /\ Count(html_content, Per("section_open", p.name)) = 1
                /\ Truthy(html_of(plugins_dir, p)) =>
                      /\ Contains(html_content, html_of(plugins_dir, p).text[1])
                      /\ Count(html_content, Per("basic_plugin_ui", p.name)) = 0
                /\ ~Truthy(html_of(plugins_dir, p)) =>
                      Occurrences(html_content,
                                  <<Per("section_open", p.name)>>
                                  \o generate_basic_plugin_ui(p.name)) = 1

(***************************************************************************)
(* read_file_safe on its own: one call on a path that is missing, that     *)
(* cannot be read, or that holds any short sequence of bytes.              *)
(***************************************************************************)
FileBytes == {Ch("x"), LF, INVALID_BYTE}

Unreadable(d) == [exists |-> TRUE, readable |-> FALSE, data |-> d]

ReadFiles ==
    {NoFile} \cup {File(d) : d \in SeqUpTo(FileBytes, MaxLen)}
    \cup {Unreadable(d) : d \in SeqUpTo(FileBytes, MaxLen)}

InitRead ==
    /\ EscapeIdle
    /\ ReaderIdle
    /\ PageIdle
    /\ mode = "read"
    /\ template_file \in ReadFiles
    /\ plugins_dir = NoDir
    /\ plugins = <<>>
    /\ dropdown_html = <<>>
    /\ html_content = <<>>
    /\ output_file = NoOutput
    /\ exit_code = 0
    /\ diagnostic = ""
    /\ runs = 0
    /\ first_run = [exit_code |-> 0, html_content |-> <<>>, output_file |-> NoOutput]

\* One call of read_file_safe; the warning goes to stderr.
ReadFile ==
    /\ mode = "read"
    /\ runs = 0
    /\ read_result' = read_file_safe(template_file)
    /\ diagnostic' = IF read_file_safe(template_file).warned
                     THEN "Warning: Failed to read" ELSE ""
    /\ runs' = 1
    /\ UNCHANGED <<escape_vars, page_vars, mode, template_file, plugins_dir, plugins,
                   dropdown_html, html_content, output_file, exit_code, first_run>>

NextRead == ReadFile

SpecRead == InitRead /\ [][NextRead]_vars

MaxPending == 2

\* A plugin whose HTML is plain text.
HtmlPlugin ==
    [is_dir |-> TRUE, plugin_c |-> TRUE, plugin_h |-> TRUE,
     name_html |-> File(<<Ch("h")>>), index_html |-> NoFile,
     css |-> NoFile, js |-> NoFile]

PageEntries == {BasicPlugin, HtmlPlugin, EmptyHtmlPlugin}

PageDirs == {Dir(f) : f \in UNION {[S -> PageEntries] : S \in SUBSET Names}}

\* What localStorage holds under selectedPlugin when the page loads: nothing,
\* a plugin name, or a name saved by an earlier version of the page.
StoredSelections == {"null", "removed_plugin"} \cup Names

\* typeof activatePlugin === 'function', typeof getActivePlugin === 'function':
\* the page of the external target defines both, the embedded page neither.
remote_available == mode = "external"

\* var plugins = [...]: the names of the PluginSet, in its order.
plugin_names == [i \in 1..Len(plugins) |-> plugins[i].name]

isValidPlugin(pluginName) == \E i \in 1..Len(plugin_names) : plugin_names[i] = pluginName

\* The script is in the page: generate_selection_js returned it and it was
\* placed.
script_in_page == Contains(html_content, Gen("selection_js_body"))

\* The sections of the page, by data-plugin-name.
page_sections == {n \in Names : Contains(html_content, Per("section_open", n))}

\* selector.value = v: the option with that value becomes the selected one;
\* with no such option the select element is left with no selection and its
\* value reads as the empty string.
set_selector_value(v) == IF isValidPlugin(v) THEN v ELSE ""

\* selectPlugin: every section loses 'active', then the first section whose
\* data-plugin-name equals pluginName gets it.
selectPlugin(pluginName) == IF pluginName \in page_sections THEN {pluginName} ELSE {}

\* The request at position i has settled.
settled(i) == [j \in 1..(Len(pending) - 1) |-> IF j < i THEN pending[j] ELSE pending[j + 1]]

InitPage ==
    /\ EscapeIdle
    /\ ReaderIdle
    /\ mode \in {"embedded", "external"}
    /\ template_file = File(TokenPage)
    /\ plugins_dir \in PageDirs
    /\ \E listing \in Listings(plugins_dir) :
          LET r == IF mode = "embedded"
                   THEN generate_html_for_embedded(template_file, plugins_dir, listing,
                                                   NoOutput, "none")
                   ELSE generate_html_for_external(template_file, plugins_dir, listing,
                                                   NoOutput, "none")
          IN  /\ plugins = r.plugins
              /\ dropdown_html = r.dropdown_html
              /\ html_content = r.html_content
              /\ output_file = r.output_file
              /\ exit_code = r.exit_code
              /\ diagnostic = r.diagnostic
              /\ first_run = [exit_code |-> r.exit_code, html_content |-> r.html_content,
                              output_file |-> r.output_file]
    /\ runs = 1
    /\ selector_value = IF plugins = <<>> THEN "" ELSE plugins[1].name
    /\ active = {}
    /\ selectedPlugin \in StoredSelections
    /\ pending = <<>>
    /\ page_state = "loading"

\* PluginSelector.init, on DOM ready.
PluginSelectorInit ==
    /\ page_state = "loading"
    /\ script_in_page
    /\ LET initialSelection == IF selectedPlugin = "null" \/ ~isValidPlugin(selectedPlugin)
                               THEN plugin_names[1]
                               ELSE selectedPlugin
       IN  /\ selector_value' = set_selector_value(initialSelection)
           /\ active' = selectPlugin(initialSelection)
    /\ pending' = IF remote_available THEN <<[kind |-> "getActivePlugin", name |-> ""]>>
                  ELSE <<>>
    /\ page_state' = "ready"
    /\ UNCHANGED <<escape_vars, reader_vars, generator_vars, selectedPlugin>>

\* The 2-second interval fires and asks for the active plugin.
PollActivePlugin ==
    /\ page_state = "ready"
    /\ remote_available
    /\ Len(pending) < MaxPending
    /\ pending' = Append(pending, [kind |-> "getActivePlugin", name |-> ""])
    /\ UNCHANGED <<escape_vars, reader_vars, generator_vars, selector_value, active,
                   selectedPlugin, page_state>>

\* getActivePlugin resolved with activePlugin (null when no plugin is active).
ActivePluginResolved(i, activePlugin) ==
    /\ page_state = "ready"
    /\ i \in 1..Len(pending)
    /\ pending[i].kind = "getActivePlugin"
    /\ IF activePlugin # "null" /\ selector_value # activePlugin
       THEN /\ selector_value' = set_selector_value(activePlugin)
            /\ active' = selectPlugin(activePlugin)
            /\ selectedPlugin' = activePlugin
       ELSE UNCHANGED <<selector_value, active, selectedPlugin>>
    /\ pending' = settled(i)
    /\ UNCHANGED <<escape_vars, reader_vars, generator_vars, page_state>>

\* getActivePlugin rejected: the error is logged or ignored.
ActivePluginRejected(i) ==
    /\ page_state = "ready"
    /\ i \in 1..Len(pending)
    /\ pending[i].kind = "getActivePlugin"
    /\ pending' = settled(i)
    /\ UNCHANGED <<escape_vars, reader_vars, generator_vars, selector_value, active,
                   selectedPlugin, page_state>>

\* The user picks another option; the page has activatePlugin.
ChangeRemote(pluginName) ==
    /\ page_state = "ready"
    /\ remote_available
    /\ isValidPlugin(pluginName)
    /\ pluginName # selector_value
    /\ Len(pending) < MaxPending
    /\ selector_value' = pluginName
    /\ pending' = Append(pending, [kind |-> "activatePlugin", name |-> pluginName])
    /\ UNCHANGED <<escape_vars, reader_vars, generator_vars, active, selectedPlugin,
                   page_state>>

\* The user picks another option; the page has no activatePlugin.
ChangeLocal(pluginName) ==
    /\ page_state = "ready"
    /\ ~remote_available
    /\ isValidPlugin(pluginName)
    /\ pluginName # selector_value
    /\ selector_value' = pluginName
    /\ active' = selectPlugin(pluginName)
    /\ selectedPlugin' = pluginName
    /\ UNCHANGED <<escape_vars, reader_vars, generator_vars, pending, page_state>>

\* activatePlugin(pluginName) resolved.
ActivateResolved(i) ==
    /\ page_state = "ready"
    /\ i \in 1..Len(pending)
    /\ pending[i].kind = "activatePlugin"
    /\ active' = selectPlugin(pending[i].name)
    /\ selectedPlugin' = pending[i].name
    /\ pending' = settled(i)
    /\ UNCHANGED <<escape_vars, reader_vars, generator_vars, selector_value, page_state>>

\* activatePlugin(pluginName) rejected: the dropdown is reset to the stored
\* selection, or to the first plugin when nothing is stored.
ActivateRejected(i) ==
    /\ page_state = "ready"
    /\ i \in 1..Len(pending)
    /\ pending[i].kind = "activatePlugin"
    /\ LET previousSelection == IF selectedPlugin = "null" THEN plugin_names[1]
                                ELSE selectedPlugin
       IN  selector_value' = set_selector_value(previousSelection)
    /\ pending' = settled(i)
    /\ UNCHANGED <<escape_vars, reader_vars, generator_vars, active, selectedPlugin,
                   page_state>>

\* What getActivePlugin resolves with: a plugin of the page, or null when
\* no plugin is active.
ActivePlugins == {plugin_names[i] : i \in 1..Len(plugin_names)} \cup {"null"}

NextPage ==
    \/ PluginSelectorInit
    \/ PollActivePlugin
    \/ \E i \in 1..MaxPending, activePlugin \in ActivePlugins :
           ActivePluginResolved(i, activePlugin)
    \/ \E i \in 1..MaxPending : ActivePluginRejected(i)
    \/ \E pluginName \in Names : ChangeRemote(pluginName)
    \/ \E pluginName \in Names : ChangeLocal(pluginName)
    \/ \E i \in 1..MaxPending : ActivateResolved(i)
    \/ \E i \in 1..MaxPending : ActivateRejected(i)

SpecPage == InitPage /\ [][NextPage]_vars

(***************************************************************************)
(* Claims about the selection script                                       *)
(***************************************************************************)

\* C23: when activatePlugin fails for a dropdown change, the visible section
\* and the stored selection stay as they were and the dropdown shows again
\* the plugin whose section is visible; on a page without activatePlugin a
\* change shows the section of the chosen plugin and stores the choice,
\* with no request sent.
RollbackToVisibleSelection ==
    [][/\ (\E i \in 1..MaxPending : ActivateRejected(i)) =>
              /\ active' = active
              /\ selectedPlugin' = selectedPlugin
              /\ active = {selector_value'}
       /\ (\E pluginName \in Names : ChangeLocal(pluginName)) =>
              /\ active' = {selector_value'}
              /\ selectedPlugin' = selector_value'
              /\ pending' = pending]_vars

\* C24: once PluginSelector.init has run on a page with plugins, exactly
\* one plugin section carries 'active', whatever changes, activation
\* results and poll results follow.
ExactlyOneSectionActive ==
    (page_state = "ready" /\ plugins # <<>>) => Cardinality(active) = 1

\* C30: on the external target, whenever no request is pending, the
\* dropdown value, the visible section and the stored selectedPlugin name
\* the same plugin.
SettledViewsAgree ==
    (mode = "external" /\ page_state = "ready" /\ pending = <<>>) =>
        /\ active = {selector_value}
        /\ selectedPlugin = selector_value

(***************************************************************************)
(* The extraction tool: add_plugin_placeholders on a document extracted    *)
(* from the C header.                                                      *)
(***************************************************************************)
\* add_plugin_placeholders: three re.sub calls with count=1.
add_plugin_placeholders(html) ==
    re_sub(SCRIPT, <<Tok("PLUGIN_JS")>> \o NL_GROUP1,
           re_sub(BODY, <<Tok("PLUGIN_HTML")>> \o NL_GROUP1,
                  re_sub(STYLE, <<Tok("PLUGIN_CSS")>> \o NL_GROUP1, html).value).value).value

ExtractedItems == Anchors \cup {Ch("x")}

ExtractedDocuments == SeqUpTo(ExtractedItems, MaxLen)

InitExtract ==
    /\ EscapeIdle
    /\ ReaderIdle
    /\ PageIdle
    /\ mode = "extract"
    /\ template_file \in {File(d) : d \in ExtractedDocuments}
    /\ plugins_dir = NoDir
    /\ plugins = <<>>
    /\ dropdown_html = <<>>
    /\ html_content = <<>>
    /\ output_file = NoOutput
    /\ exit_code = 0
    /\ diagnostic = ""
    /\ runs = 0
    /\ first_run = [exit_code |-> 0, html_content |-> <<>>, output_file |-> NoOutput]

\* html_content = add_plugin_placeholders(html_content) in the main block.
AddPlaceholders ==
    /\ mode = "extract"
    /\ runs = 0
    /\ html_content' = add_plugin_placeholders(template_file.data)
    /\ runs' = 1
    /\ UNCHANGED <<escape_vars, reader_vars, page_vars, mode, template_file, plugins_dir,
                   plugins, dropdown_html, output_file, exit_code, diagnostic, first_run>>

NextExtract == AddPlaceholders

SpecExtract == InitExtract /\ [][NextExtract]_vars

(***************************************************************************)
(* Claims about the extraction tool                                        *)
(***************************************************************************)
Extracted == mode = "extract" /\ runs = 1

\* The anchor the fallback of the embedded generator inserts before.
EmbeddedAnchor(p) ==
    IF p \in {"PLUGIN_LAYOUT_CSS", "PLUGIN_CSS"} THEN STYLE
    ELSE IF p = "PLUGIN_HTML" THEN BODY
    ELSE SCRIPT

\* The token of p stands right before the first anchor a, a newline between.
TokenBeforeFirst(doc, p, a) ==
    \E i \in 1..(Len(doc) - 2) :
        /\ doc[i] = Tok(p)
        /\ doc[i + 1] = LF
        /\ doc[i + 2] = a
        /\ \A j \in 1..(i - 1) : doc[j] # a

\* C25: the extraction tool writes each of the seven tokens of the
\* generator: a token that has a fallback anchor right before the first
\* such anchor of the document, all seven into a document that has the
\* three anchors; and every token it writes is one of the seven.
ExtractWritesSevenTokens ==
    Extracted =>
        /\ \A p \in Points :
              Contains(template_file.data, EmbeddedAnchor(p)) =>
                  TokenBeforeFirst(html_content, p, EmbeddedAnchor(p))
        /\ (\A a \in {STYLE, BODY, SCRIPT} : Contains(template_file.data, a)) =>
              \A tok \in Tokens : Contains(html_content, tok)
        /\ \A i \in 1..Len(html_content) :
              html_content[i].k = "tok" => html_content[i] \in Tokens

(***************************************************************************)
(* Claims about the two targets and about the order of the substitutions   *)
(***************************************************************************)
EmbeddedDocument == embedded_compose(template_text, plugins_dir, plugins)

ExternalDocument == external_compose(template_text, plugins_dir, plugins)

\* The sections of a document: each from its opening tag up to the next
\* closing tag of a section.
RECURSIVE SectionsOf(_)
SectionsOf(doc) ==
    IF \A i \in 1..Len(doc) : doc[i].k # "section_open" THEN <<>>
    ELSE LET b == CHOOSE i \in 1..Len(doc) :
                      /\ doc[i].k = "section_open"
                      /\ \A j \in 1..(i - 1) : doc[j].k # "section_open"
             rest == SubSeq(doc, b, Len(doc))
         IN  IF ~Contains(rest, Gen("section_close")) THEN <<rest>>
             ELSE LET e == FirstIndex(rest, Gen("section_close"))
                  IN  <<SubSeq(rest, 1, e)>> \o SectionsOf(SubSeq(rest, e + 1, Len(rest)))

\* The generated style and script texts, by the item that marks each.
GeneratedStyleAndScript ==
    {Gen("layout_css"), Gen("basic_plugin_ui_css"), Gen("basic_plugin_ui_js"),
     Gen("selection_js_body"), Gen("mesh_control_css"), Gen("mesh_control_js_head")}

\* C26: for the same template and PluginSet the two targets compose the
\* same dropdown, the same selection script and the same sections, and a
\* generated style or script text is in the one document exactly when it is
\* in the other.
TargetsConsistent ==
    (Composed /\ ~EmbeddedDocument.raised /\ ~ExternalDocument.raised) =>
        /\ plugins # <<>> =>
              /\ Occurrences(EmbeddedDocument.value, generate_dropdown_html(plugins))
                    = Occurrences(ExternalDocument.value, generate_dropdown_html(plugins))
              /\ Occurrences(EmbeddedDocument.value, generate_selection_js(plugins))
                    = Occurrences(ExternalDocument.value, generate_selection_js(plugins))
        /\ SectionsOf(EmbeddedDocument.value) = SectionsOf(ExternalDocument.value)
        /\ \A g \in GeneratedStyleAndScript :
              Contains(EmbeddedDocument.value, g) <=> Contains(ExternalDocument.value, g)

\* C27: plugin HTML that holds the characters of a placeholder token is in
\* the composed document as it was read, the token inside it left alone.
\* Stated for the templates that hold the token of the sections once.
FlatResolution ==
    (Composed /\ Count(template_text, Tok("PLUGIN_HTML")) = 1) =>
        \A i \in 1..Len(plugins) :
            LET html == html_of(plugins_dir, plugins[i])
            IN  (Truthy(html) /\ \E tok \in Tokens : Contains(html.text, tok)) =>
                    Occurrences(html_content,
                                <<Per("section_open", plugins[i].name)>> \o html.text
                                \o <<Gen("section_close")>>) = 1

\* C28: no fallback insertion takes a closing tag of inserted plugin HTML
\* for its anchor: plugin HTML that holds a closing tag is in the composed
\* document as it was read, with nothing inserted into it.  Stated for the
\* templates that have one place for the sections.
AnchorsOfTemplateOnly ==
    (Composed /\ (Count(template_text, Tok("PLUGIN_HTML")) = 1
                  \/ (~Contains(template_text, Tok("PLUGIN_HTML"))
                      /\ Contains(template_text, BODY)))) =>
        \A i \in 1..Len(plugins) :
            LET html == html_of(plugins_dir, plugins[i])
            IN  (/\ Truthy(html)
                 /\ \E a \in Anchors : Contains(html.text, a)
                 /\ \A tok \in Tokens : ~Contains(html.text, tok)) =>
                    Occurrences(html_content, html.text \o <<Gen("section_close")>>) = 1

\* C29: no run aborts inside re.sub because of the content it inserts, and
\* content placed before an anchor is in the document as it was generated:
\* the mesh-control script, which holds backslashes and is always placed
\* before the closing script tag, occurs there character for character.
FallbackInsertsVerbatim ==
    Ran =>
        /\ diagnostic # "Traceback: re.error"
        /\ (Composed /\ mode = "embedded" /\ Contains(template_text, SCRIPT)) =>
              Occurrences(html_content, generate_mesh_control_js) = 1

====
